---- MODULE Spec2Model ----
(***************************************************************************)
(* The harvesting scripts of indian_facilities as state machines.          *)
(*                                                                         *)
(*   banking/scrape.py   main, service_call, get_state_map,                *)
(*                       get_bank_groups, get_type      (SpecBank)         *)
(*                                                                         *)
(* A script is a sequential process; its position is a pc variable.  The   *)
(* remote source and the moment the process is killed are the environment. *)
(***************************************************************************)
EXTENDS Integers, Sequences, FiniteSets, TLC

None == "None"

\* ------------------------------------------------------------------ bounds
\* Number of branch types taken from the head of the list main() loops over.
NumTypes == 2
\* Page size of get_type.  The script asks for 1000 records a page
\* (src/banking/scrape.py:123); the model runs the same loop with a page
\* small enough that full, short and empty pages all occur.
limit == 2
\* Number of times the script is started.
MaxRuns == 2

\* ------------------------------------------------------------ small helpers
Min(a, b) == IF a < b THEN a ELSE b

IsPrefix(s, t) == Len(s) <= Len(t) /\ SubSeq(t, 1, Len(s)) = s

NoDup(s) == \A i, j \in 1..Len(s) : s[i] = s[j] => i = j

\* ================================================================ banking
\* main(): for typ in ["BRANCH", "BC", "CSP", "OFFICE", "DBU"]
AllTypes == <<"BRANCH", "BC", "CSP", "OFFICE", "DBU">>

TypeList == SubSeq(AllTypes, 1, Min(NumTypes, Len(AllTypes)))

TypeSet == {TypeList[i] : i \in 1..Len(TypeList)}

\* The services main() reaches through service_call.
Services == {"security_generateSessionToken", "dbie_getStateAndDistrict",
             "dbie_getBankANDBankGrp", "dbie_getBankGetData"}

\* Values the remote may put in a response's authorization header: the
\* session's token, and another value on a later response.
Tokens == {"tokA", "tokB"}

HeadersOf(service) ==
    IF service = "security_generateSessionToken" THEN {"tokA"} ELSE Tokens

\* What one remote call can come to:
\*   transport  the HTTP call itself raises
\*   notok      a response with resp.ok false
\*   nohdr      an OK, successful response without an authorization header
\*   parse      an OK response whose text is not JSON
\*   status     an OK response whose header.status is not 'success'
\*   ok         an OK, successful response
Kinds == {"transport", "notok", "nohdr", "parse", "status", "ok"}

VARIABLES
    remote,          \* [typ -> number of records the source holds]
    scen,            \* the fault the remote shows: [at, kind, typ, from]
    typ_file,        \* data/<typ>.jsonl: [exists, lines]
    state_map_file,  \* data/state_map.json exists
    bank_group_file, \* data/bank_group.json exists
    token,           \* the module-level token of scrape.py
    pc,              \* position of the banking process
    ti,              \* index into TypeList of main()'s loop
    offset,          \* get_type: offset
    typ_data,        \* get_type: the page in hand
    wi,              \* get_type: items of the page written so far
    run,             \* number of processes started so far
    prevEnd,         \* how the previous process ended
    srcChanged,      \* the remote was repaired before this run
    startFiles,      \* the files as this run found them
    reqs,            \* [service or typ -> requests sent in this run]
    lastReq,         \* the last request sent: [service, auth, offset, typ]
    tokenAtReq,      \* token as it was when lastReq was built
    returned,        \* the types whose get_type returned in this run
    abortAt          \* where an exception left main(), or None

bvars == <<remote, scen, typ_file, state_map_file, bank_group_file, token, pc,
           ti, offset, typ_data, wi, run, prevEnd, srcChanged, startFiles,
           reqs, lastReq, tokenAtReq, returned, abortAt>>

\* police/mp/scrape.py
VARIABLES
    web_urls,          \* the district dropdown of the home page: names in order
    pfeat,             \* [name -> number of features of the district's map]
    pscen,             \* the fault the remote shows: [at, name, kind]
    station_urls_file, \* data/station_urls.json: [exists, data]
    urlreqs,           \* requests for the home page in this run
    geojsonl,          \* [normalized name -> data/<name>.geojsonl: [exists, lines]]
    ppc,               \* position of the police process
    district_urls,     \* scrape_all_districts: the names it iterates over
    pi,                \* index into district_urls
    force,             \* the force argument of this run
    features,          \* scrape_district_police_stations: features in hand
    pwi,               \* features written so far
    prun,              \* number of processes started so far
    pprev,             \* how the previous process ended, and its force
    psrcChanged,       \* the remote was repaired before this run
    pstartFiles,       \* geojsonl as this run found it
    requested,         \* the names a remote request was sent for in this run
    skipped,           \* the names skipped as cached in this run
    lastSkip           \* the last cache decision: [name, skip, force, file]

pvars == <<web_urls, pfeat, pscen, station_urls_file, urlreqs, geojsonl, ppc,
           district_urls, pi, force, features, pwi, prun, pprev,
           psrcChanged, pstartFiles, requested, skipped, lastSkip>>

\* soi_cors/fetch_cors_stations.py
VARIABLES
    sscen,       \* what the remote answers: [page, api]
    sfeat,       \* number of features of the stations GeoJSON
    OUTPUT_FILE, \* data/SOI_CORS_locations.geojsonl: [exists, lines]
    spc,         \* position of the process
    stoken,      \* main(): token
    geojson,     \* main(): the features in hand
    swi,         \* features written so far
    srun,        \* number of processes started so far
    sstartFile,  \* OUTPUT_FILE as this run found it
    sreqs        \* requests to the stations API in this run

svars == <<sscen, sfeat, OUTPUT_FILE, spc, stoken, geojson, swi, srun,
           sstartFile, sreqs>>

\* banking/convert.py
VARIABLES
    cin,     \* the data/*.jsonl files in glob order, each a sequence of lines
    cout,    \* the RBI_Banks_*_2025.geojsonl file of each: [exists, lines]
    cpc,     \* position of the process
    cfi,     \* index of the file p of the outer loop
    cli,     \* index of the line of the inner loop
    count,   \* count
    printed  \* what print(count, line) has shown

cvars == <<cin, cout, cpc, cfi, cli, count, printed>>

\* police/mp/export.py
VARIABLES
    efs,        \* the files under DATA_DIR: [path -> [exists, lines]]
    epc,        \* position of the process
    todo,       \* collate_all: the sorted glob
    ei,         \* collate_all: index into todo
    efeatures,  \* collate_all: features
    special,    \* main(): special
    regular,    \* main(): regular
    erun        \* number of processes started so far

evars == <<efs, epc, todo, ei, efeatures, special, regular, erun>>

\* The script a behaviour follows.
VARIABLE script

vars == <<script, bvars, pvars, svars, cvars, evars>>

\* ---------------------------------------------------------- the remote side
\* The numbers of records the remote may hold for one branch type: none, a
\* short page, exactly one page, a page and a short one.
Totals == {0, 1, limit, limit + 1}

\* Record ids of one type's records, in the source's order.
SourceSeq(t) == [i \in 1..remote[t] |-> i]

\* The records the source returns for offsetValue = off, limitValue = lim.
Page(t, off, lim) ==
    IF off >= remote[t] THEN <<>>
    ELSE SubSeq(SourceSeq(t), off + 1, Min(off + lim, remote[t]))

NoFault == [at |-> "none", kind |-> "ok", typ |-> None, from |-> 0]

\* The handshake fails: the landing page, or the token call.
HandshakeFaults ==
    {[at |-> "landing", kind |-> k, typ |-> None, from |-> 0] :
        k \in {"transport", "notok"}}
    \cup {[at |-> "token", kind |-> k, typ |-> None, from |-> 0] :
             k \in Kinds \ {"ok"}}

\* The refusals a remote that answered before may begin with.
Refusals ==
    {[at |-> "landing", kind |-> "notok", typ |-> None, from |-> 0],
     [at |-> "token", kind |-> "status", typ |-> None, from |-> 0]}

Scenarios ==
    {NoFault}
    \cup HandshakeFaults
    \cup {[at |-> "state_map", kind |-> "notok", typ |-> None, from |-> 0],
          [at |-> "bank_group", kind |-> "status", typ |-> None, from |-> 0]}
    \cup {[at |-> "data", kind |-> k, typ |-> t, from |-> f] :
             k \in {"transport"}, t \in TypeSet, f \in {0, limit}}

\* The outcome of a call to `service` (for typ t at offset off) under scen.
Outcome(service, t, off) ==
    CASE service = "security_generateSessionToken" /\ scen.at = "token" -> scen.kind
      [] service = "dbie_getStateAndDistrict" /\ scen.at = "state_map" -> scen.kind
      [] service = "dbie_getBankANDBankGrp" /\ scen.at = "bank_group" -> scen.kind
      [] service = "dbie_getBankGetData" /\ scen.at = "data"
            /\ scen.typ = t /\ off >= scen.from -> scen.kind
      [] OTHER -> "ok"

\* ------------------------------------------------------------- service_call
\* headers['authorization'] of the request, None when the header is not set.
RequestAuth(tok) == IF tok # None THEN tok ELSE None

\* The module-level token after the call: set from the first OK response.
TokenAfterAlways(tok, kind, hdr) ==
    IF kind \in {"transport", "notok", "nohdr"} THEN tok ELSE hdr

TokenAfterCleared(tok, kind, hdr) ==
    IF kind \in {"transport", "notok"} THEN None
    ELSE IF tok = None
         THEN (IF kind = "nohdr" THEN tok ELSE hdr)
         ELSE tok

TokenAfter(tok, kind, hdr) ==
    IF kind \in {"transport", "notok"} THEN tok
    ELSE IF tok = None
         THEN (IF kind = "nohdr" THEN tok ELSE hdr)
         ELSE tok

\* Whether service_call raises.
RaisesUnlessStatus(tok, kind) ==
    \/ kind \in {"transport", "notok", "parse"}
    \/ kind = "nohdr" /\ tok = None

Raises(tok, kind) ==
    \/ kind \in {"transport", "notok", "parse", "status"}
    \/ kind = "nohdr" /\ tok = None

\* The bookkeeping of one request.
Sent(service, t, off) ==
    /\ lastReq' = [service |-> service, auth |-> RequestAuth(token),
                   offset |-> off, typ |-> t]
    /\ tokenAtReq' = token
    /\ reqs' = [reqs EXCEPT ![IF service = "dbie_getBankGetData" THEN t ELSE service] = @ + 1]


\* ---------------------------------------------------------- reference files
\* if state_map_file.exists(): return json.loads(state_map_file.read_text())
\* (the same test opens get_bank_groups and get_station_urls)
CacheHitNever(exists) == FALSE

CacheHit(exists) == exists

\* ------------------------------------------------------------------ get_type
\* offset = len(all_typ_data): the records read back from the cache file.
StartOffsetZero(f) == 0

StartOffset(f) == IF f.exists THEN Len(f.lines) ELSE 0

\* if len(typ_data) < limit: break
EndOfDataWhenEmpty(n) == n = 0

EndOfData(n) == n < limit

\* offset += limit
NextOffsetByOne(off) == off + 1

NextOffsetSkipsOne(off) == off + limit + 1

NextOffset(off) == off + limit

\* f.write(json.dumps(item)); f.write('\n') on a file opened with 'a'
AppendItemFront(f, item) == [exists |-> TRUE, lines |-> <<item>> \o f.lines]

AppendItem(f, item) == [exists |-> TRUE, lines |-> Append(f.lines, item)]

NoFile == [exists |-> FALSE, lines |-> <<>>]

NoReq == [service |-> None, auth |-> None, offset |-> 0, typ |-> None]

Files == [typ |-> typ_file, sm |-> state_map_file, bg |-> bank_group_file]

Running == {"landing", "token", "state_map", "bank_group", "get_type",
            "fetch", "open", "append"}

Ended == {"done", "aborted", "crashed"}

typ == TypeList[ti]

\* ------------------------------------------------------------------ actions
\* python scrape.py: a new process; the module-level token starts as None.
\* The remote answers as before, has been repaired, or has begun to refuse
\* the handshake.
StartRun(next) ==
    /\ pc \in {"idle"} \cup Ended
    /\ run < MaxRuns
    /\ next \in {scen, NoFault} \cup (IF scen = NoFault THEN Refusals ELSE {})
    /\ scen' = next
    /\ srcChanged' = (next # scen)
    /\ prevEnd' = IF pc = "idle" THEN None ELSE pc
    /\ startFiles' = Files
    /\ run' = run + 1
    /\ token' = None
    /\ pc' = "landing"
    /\ ti' = 1
    /\ offset' = 0
    /\ typ_data' = <<>>
    /\ wi' = 0
    /\ reqs' = [s \in Services \cup TypeSet |-> 0]
    /\ lastReq' = NoReq
    /\ tokenAtReq' = None
    /\ returned' = {}
    /\ abortAt' = None
    /\ UNCHANGED <<remote, typ_file, state_map_file, bank_group_file>>

\* An exception nobody catches leaves main().
Abort(where) ==
    /\ pc' = "aborted"
    /\ abortAt' = where

\* resp = session.get(base_url); if not resp.ok: raise
Landing ==
    /\ pc = "landing"
    /\ IF scen.at = "landing"
       THEN Abort("landing")
       ELSE pc' = "token" /\ abortAt' = abortAt
    /\ UNCHANGED <<remote, scen, typ_file, state_map_file, bank_group_file,
                   token, ti, offset, typ_data, wi, run, prevEnd, srcChanged,
                   startFiles, reqs, lastReq, tokenAtReq, returned>>

\* service_call(session, 'security_generateSessionToken', {})
TokenCall ==
    /\ pc = "token"
    /\ \E hdr \in HeadersOf("security_generateSessionToken") :
        LET k == Outcome("security_generateSessionToken", None, 0) IN
        /\ Sent("security_generateSessionToken", None, 0)
        /\ token' = TokenAfter(token, k, hdr)
        /\ IF Raises(token, k)
           THEN Abort("token")
           ELSE pc' = "state_map" /\ abortAt' = abortAt
    /\ UNCHANGED <<remote, scen, typ_file, state_map_file, bank_group_file,
                   ti, offset, typ_data, wi, run, prevEnd, srcChanged,
                   startFiles, returned>>

\* get_state_map(session)
GetStateMap ==
    /\ pc = "state_map"
    /\ IF CacheHit(state_map_file)
       THEN /\ pc' = "bank_group"
            /\ UNCHANGED <<state_map_file, token, reqs, lastReq, tokenAtReq, abortAt>>
       ELSE \E hdr \in Tokens :
            LET k == Outcome("dbie_getStateAndDistrict", None, 0) IN
            /\ Sent("dbie_getStateAndDistrict", None, 0)
            /\ token' = TokenAfter(token, k, hdr)
            /\ IF Raises(token, k)
               THEN Abort("state_map") /\ UNCHANGED state_map_file
               ELSE /\ state_map_file' = TRUE
                    /\ pc' = "bank_group"
                    /\ abortAt' = abortAt
    /\ UNCHANGED <<remote, scen, typ_file, bank_group_file, ti, offset,
                   typ_data, wi, run, prevEnd, srcChanged, startFiles, returned>>

\* get_bank_groups(session)
GetBankGroups ==
    /\ pc = "bank_group"
    /\ IF CacheHit(bank_group_file)
       THEN /\ pc' = "get_type"
            /\ UNCHANGED <<bank_group_file, token, reqs, lastReq, tokenAtReq, abortAt>>
       ELSE \E hdr \in Tokens :
            LET k == Outcome("dbie_getBankANDBankGrp", None, 0) IN
            /\ Sent("dbie_getBankANDBankGrp", None, 0)
            /\ token' = TokenAfter(token, k, hdr)
            /\ IF Raises(token, k)
               THEN Abort("bank_group") /\ UNCHANGED bank_group_file
               ELSE /\ bank_group_file' = TRUE
                    /\ pc' = "get_type"
                    /\ abortAt' = abortAt
    /\ UNCHANGED <<remote, scen, typ_file, state_map_file, ti, offset,
                   typ_data, wi, run, prevEnd, srcChanged, startFiles, returned>>

\* get_type, lines 111-123: read the cache file back and start after it.
GetTypeBegin ==
    /\ pc = "get_type"
    /\ offset' = StartOffset(typ_file[typ])
    /\ typ_data' = <<>>
    /\ wi' = 0
    /\ pc' = "fetch"
    /\ UNCHANGED <<remote, scen, typ_file, state_map_file, bank_group_file,
                   token, ti, run, prevEnd, srcChanged, startFiles, reqs,
                   lastReq, tokenAtReq, returned, abortAt>>

\* get_type, lines 125-129: one page is asked for.
Fetch ==
    /\ pc = "fetch"
    /\ \E hdr \in Tokens :
        LET k == Outcome("dbie_getBankGetData", typ, offset) IN
        /\ Sent("dbie_getBankGetData", typ, offset)
        /\ token' = TokenAfter(token, k, hdr)
        /\ IF Raises(token, k)
           THEN Abort("data") /\ UNCHANGED typ_data
           ELSE /\ typ_data' = Page(typ, offset, limit)
                /\ pc' = "open"
                /\ abortAt' = abortAt
    /\ UNCHANGED <<remote, scen, typ_file, state_map_file, bank_group_file,
                   ti, offset, wi, run, prevEnd, srcChanged, startFiles,
                   returned>>

\* get_type, line 130: open(typ_file, 'a') creates the file when it is absent.
OpenAppend ==
    /\ pc = "open"
    /\ typ_file' = [typ_file EXCEPT ![typ] = [exists |-> TRUE, lines |-> @.lines]]
    /\ wi' = 0
    /\ pc' = "append"
    /\ UNCHANGED <<remote, scen, state_map_file, bank_group_file, token, ti,
                   offset, typ_data, run, prevEnd, srcChanged, startFiles,
                   reqs, lastReq, tokenAtReq, returned, abortAt>>

\* get_type, lines 131-134: one item of the page is written.
AppendOne ==
    /\ pc = "append"
    /\ wi < Len(typ_data)
    /\ typ_file' = [typ_file EXCEPT ![typ] = AppendItem(@, typ_data[wi + 1])]
    /\ wi' = wi + 1
    /\ UNCHANGED <<remote, scen, state_map_file, bank_group_file, token, pc,
                   ti, offset, typ_data, run, prevEnd, srcChanged, startFiles,
                   reqs, lastReq, tokenAtReq, returned, abortAt>>

\* get_type, lines 135-139, and the loop of main(), lines 183-184.
PageDone ==
    /\ pc = "append"
    /\ wi = Len(typ_data)
    /\ IF EndOfData(Len(typ_data))
       THEN /\ returned' = returned \cup {typ}
            /\ offset' = offset
            /\ IF ti < Len(TypeList)
               THEN ti' = ti + 1 /\ pc' = "get_type"
               ELSE ti' = ti /\ pc' = "done"
       ELSE /\ offset' = NextOffset(offset)
            /\ pc' = "fetch"
            /\ UNCHANGED <<returned, ti>>
    /\ UNCHANGED <<remote, scen, typ_file, state_map_file, bank_group_file,
                   token, typ_data, wi, run, prevEnd, srcChanged, startFiles,
                   reqs, lastReq, tokenAtReq, abortAt>>

\* What a file open for writing may hold when the process is killed after
\* `written` writes: the writes are buffered, the last of them may be lost.
\* The file is taken to end with a whole record.
Flushed(file, written) ==
    {[file EXCEPT !.lines = SubSeq(@, 1, k)] :
        k \in (Len(file.lines) - written)..Len(file.lines)}

\* The process is killed: its memory is gone, what reached the disk stays.
Crash ==
    /\ pc \in Running
    /\ pc' = "crashed"
    /\ IF pc = "append"
       THEN \E g \in Flushed(typ_file[typ], wi) :
               typ_file' = [typ_file EXCEPT ![typ] = g]
       ELSE UNCHANGED typ_file
    /\ token' = None
    /\ ti' = 1
    /\ offset' = 0
    /\ typ_data' = <<>>
    /\ wi' = 0
    /\ lastReq' = NoReq
    /\ tokenAtReq' = None
    /\ UNCHANGED <<remote, scen, state_map_file, bank_group_file, run,
                   prevEnd, srcChanged, startFiles, reqs, returned, abortAt>>


\* ================================================================= police
\* Number of districts in the dropdown.
NumDistricts == 2
\* The numbers of features a district's map may hold: none, or two.
FeatChoices == {0, 2}

UpperCase == <<"A", "B", "P", "S", "T">>

LowerCase == <<"a", "b", "p", "s", "t">>

\* str.lower(), one character
Lower(c) ==
    IF \E i \in 1..Len(UpperCase) : UpperCase[i] = c
    THEN LowerCase[CHOOSE i \in 1..Len(UpperCase) : UpperCase[i] = c]
    ELSE c

\* [a-z0-9]
Alnum == {LowerCase[i] : i \in 1..Len(LowerCase)} \cup {"0", "1"}

RECURSIVE DropRun(_)
DropRun(s) ==
    IF s = <<>> \/ Head(s) \in Alnum THEN s ELSE DropRun(Tail(s))

\* re.sub(r"[^a-z0-9]+", "_", s)
RECURSIVE SubRuns(_)
SubRuns(s) ==
    IF s = <<>> THEN <<>>
    ELSE IF Head(s) \in Alnum THEN <<Head(s)>> \o SubRuns(Tail(s))
    ELSE <<"_">> \o SubRuns(DropRun(Tail(s)))

\* str.strip("_")
RECURSIVE Strip(_)
Strip(s) ==
    IF s = <<>> THEN s
    ELSE IF Head(s) = "_" THEN Strip(Tail(s))
    ELSE IF s[Len(s)] = "_" THEN Strip(SubSeq(s, 1, Len(s) - 1))
    ELSE s

normalize_district_name(name) ==
    Strip(SubRuns([i \in 1..Len(name) |-> Lower(name[i])]))

\* The file name stem of a district's cache file.
get_district_geojsonl_path(name) == normalize_district_name(name)

\* skip_prefixes = ("PTC", "PTS", "ITI", "JNPA", "GRP")
skip_prefixes == {<<"P", "T", "C">>, <<"P", "T", "S">>, <<"I", "T", "I">>,
                  <<"J", "N", "P", "A">>, <<"G", "R", "P">>}

\* district_name.startswith(skip_prefixes)
IsTraining(name) == \E p \in skip_prefixes : IsPrefix(p, name)

\* District names the dropdown may hold: a plain one, two that differ only
\* in case and punctuation, and a training school.
NameChoices == {<<"B", "a">>, <<"A", " ", "b">>, <<"a", "-", "B", "-">>,
                <<"P", "T", "S", " ", "a">>}

PathSet == {get_district_geojsonl_path(n) : n \in NameChoices}

NameLists ==
    {l \in [1..NumDistricts -> NameChoices] :
        \A i, j \in 1..NumDistricts : l[i] = l[j] => i = j}

\* No district: the empty name.
NoName == <<>>

NoPFault == [at |-> "none", name |-> NoName, kind |-> "ok"]

\* page: the district page cannot be fetched;  nomap: it embeds no map;
\* kml: the KML download fails;  zip: the download is no archive with doc.kml;
\* convert: doc.kml cannot be decoded or converted.
PKinds == {"page", "nomap", "kml", "zip", "convert"}

\* The kinds a scenario draws from: page stands for the four that
\* scrape_district_police_stations answers alike, by returning [].
PScenarioKinds == {k \in PKinds : k \in {"page", "convert"}}

PScenarios(names) ==
    {NoPFault, [at |-> "urls", name |-> NoName, kind |-> "page"]}
    \cup {[at |-> "district", name |-> n, kind |-> k] :
             n \in {names[i] : i \in 1..Len(names)}, k \in PScenarioKinds}

\* What the remote answers for a district.
POutcome(name) ==
    IF pscen.at = "district" /\ pscen.name = name THEN pscen.kind ELSE "ok"

\* kml_to_geojson_features: the features of the map, each tagged with the
\* district it was fetched for.
kml_to_geojson_features(name) ==
    [i \in 1..pfeat[name] |-> [district |-> name, n |-> i]]

\* if not force and geojsonl_path.exists()
SkipAsCached(f, file) == ~f /\ file.exists

\* open(geojsonl_path, "w")
OpenKeep(file) == [exists |-> TRUE, lines |-> file.lines]

OpenTruncate(file) == [exists |-> TRUE, lines |-> <<>>]

PRunning == {"urls", "loop", "open", "write"}

district_name == district_urls[pi]

district_path == get_district_geojsonl_path(district_name)

NoPrev == [end |-> None, force |-> FALSE]

NoSkip == [name |-> NoName, skip |-> FALSE, force |-> FALSE, file |-> NoFile]

PoliceInputs ==
    /\ web_urls \in NameLists
    /\ pfeat \in [{web_urls[i] : i \in 1..Len(web_urls)} -> FeatChoices]
    /\ \A n \in DOMAIN pfeat : IsTraining(n) => pfeat[n] = 0
    /\ pscen \in PScenarios(web_urls)
    /\ pscen.at = "district" => ~IsTraining(pscen.name)

PoliceOff ==
    /\ web_urls = <<>>
    /\ pfeat = <<>>
    /\ pscen = NoPFault

PoliceStart ==
    /\ station_urls_file = [exists |-> FALSE, data |-> <<>>]
    /\ urlreqs = 0
    /\ geojsonl = [p \in PathSet |-> NoFile]
    /\ ppc = "idle"
    /\ district_urls = <<>>
    /\ pi = 1
    /\ force = FALSE
    /\ features = <<>>
    /\ pwi = 0
    /\ prun = 0
    /\ pprev = NoPrev
    /\ psrcChanged = FALSE
    /\ pstartFiles = geojsonl
    /\ requested = {}
    /\ skipped = {}
    /\ lastSkip = NoSkip

\* python scrape.py, or scrape_all_districts(force=f) from another program.
StartPolice(f, fix) ==
    /\ ppc \in {"idle"} \cup Ended
    /\ prun < MaxRuns
    /\ fix => pscen # NoPFault
    /\ pscen' = IF fix THEN NoPFault ELSE pscen
    /\ psrcChanged' = fix
    /\ pprev' = IF ppc = "idle" THEN NoPrev ELSE [end |-> ppc, force |-> force]
    /\ pstartFiles' = geojsonl
    /\ prun' = prun + 1
    /\ force' = f
    /\ ppc' = "urls"
    /\ district_urls' = <<>>
    /\ pi' = 1
    /\ features' = <<>>
    /\ pwi' = 0
    /\ requested' = {}
    /\ skipped' = {}
    /\ lastSkip' = NoSkip
    /\ urlreqs' = 0
    /\ UNCHANGED <<web_urls, pfeat, station_urls_file, geojsonl>>

\* The loop of scrape_all_districts moves to the next name, or returns.
Advance ==
    /\ pi' = pi + 1
    /\ ppc' = IF pi + 1 > Len(district_urls) THEN "done" ELSE "loop"

\* get_station_urls()
GetStationUrls ==
    /\ ppc = "urls"
    /\ pi' = 1
    /\ IF CacheHit(station_urls_file.exists)
       THEN /\ district_urls' = station_urls_file.data
            /\ ppc' = "loop"
            /\ UNCHANGED <<station_urls_file, urlreqs>>
       ELSE /\ urlreqs' = urlreqs + 1
            /\ IF pscen.at = "urls"
               THEN /\ ppc' = "aborted"
                    /\ UNCHANGED <<district_urls, station_urls_file>>
               ELSE /\ station_urls_file' = [exists |-> TRUE, data |-> web_urls]
                    /\ district_urls' = web_urls
                    /\ ppc' = "loop"
    /\ UNCHANGED <<web_urls, pfeat, pscen, geojsonl, force, features, pwi,
                   prun, pprev, psrcChanged, pstartFiles, requested,
                   skipped, lastSkip>>

\* scrape_all_districts, lines 205-207
SkipTraining ==
    /\ ppc = "loop"
    /\ IsTraining(district_name)
    /\ Advance
    /\ UNCHANGED <<web_urls, pfeat, pscen, urlreqs, station_urls_file, geojsonl,
                   district_urls, force, features, pwi, prun, pprev,
                   psrcChanged, pstartFiles, requested, skipped, lastSkip>>

\* scrape_district_police_stations, lines 141-146
SkipCached ==
    /\ ppc = "loop"
    /\ ~IsTraining(district_name)
    /\ SkipAsCached(force, geojsonl[district_path])
    /\ skipped' = skipped \cup {district_name}
    /\ lastSkip' = [name |-> district_name, skip |-> TRUE, force |-> force,
                    file |-> geojsonl[district_path]]
    /\ Advance
    /\ UNCHANGED <<web_urls, pfeat, pscen, urlreqs, station_urls_file, geojsonl,
                   district_urls, force, features, pwi, prun, pprev,
                   psrcChanged, pstartFiles, requested>>

\* scrape_district_police_stations, lines 148-181
Scrape ==
    /\ ppc = "loop"
    /\ ~IsTraining(district_name)
    /\ ~SkipAsCached(force, geojsonl[district_path])
    /\ requested' = requested \cup {district_name}
    /\ lastSkip' = [name |-> district_name, skip |-> FALSE, force |-> force,
                    file |-> geojsonl[district_path]]
    /\ CASE POutcome(district_name) \in {"page", "nomap", "kml", "zip"} ->
                \* caught, or no map id: return []
                Advance /\ UNCHANGED features
         [] POutcome(district_name) = "convert" ->
                \* raised outside every try block
                ppc' = "aborted" /\ UNCHANGED <<pi, features>>
         [] OTHER ->
                /\ features' = kml_to_geojson_features(district_name)
                /\ ppc' = "open"
                /\ UNCHANGED pi
    /\ UNCHANGED <<web_urls, pfeat, pscen, urlreqs, station_urls_file, geojsonl,
                   district_urls, force, pwi, prun, pprev, psrcChanged,
                   pstartFiles, skipped>>

\* scrape_district_police_stations, lines 184-185
POpen ==
    /\ ppc = "open"
    /\ geojsonl' = [geojsonl EXCEPT ![district_path] = OpenTruncate(@)]
    /\ pwi' = 0
    /\ ppc' = "write"
    /\ UNCHANGED <<web_urls, pfeat, pscen, urlreqs, station_urls_file, district_urls,
                   pi, force, features, prun, pprev, psrcChanged,
                   pstartFiles, requested, skipped, lastSkip>>

\* scrape_district_police_stations, lines 186-187: one feature is written.
PWriteOne ==
    /\ ppc = "write"
    /\ pwi < Len(features)
    /\ geojsonl' = [geojsonl EXCEPT ![district_path] =
                       AppendItem(@, features[pwi + 1])]
    /\ pwi' = pwi + 1
    /\ UNCHANGED <<web_urls, pfeat, pscen, urlreqs, station_urls_file, ppc,
                   district_urls, pi, force, features, prun, pprev,
                   psrcChanged, pstartFiles, requested, skipped, lastSkip>>

\* scrape_district_police_stations, lines 189-190, back in the loop.
PWriteDone ==
    /\ ppc = "write"
    /\ pwi = Len(features)
    /\ Advance
    /\ UNCHANGED <<web_urls, pfeat, pscen, urlreqs, station_urls_file, geojsonl,
                   district_urls, force, features, pwi, prun, pprev,
                   psrcChanged, pstartFiles, requested, skipped, lastSkip>>

\* The process is killed: its memory is gone, what reached the disk stays.
PCrash ==
    /\ ppc \in PRunning
    /\ ppc' = "crashed"
    /\ IF ppc = "write"
       THEN \E g \in Flushed(geojsonl[district_path], pwi) :
               geojsonl' = [geojsonl EXCEPT ![district_path] = g]
       ELSE UNCHANGED geojsonl
    /\ district_urls' = <<>>
    /\ pi' = 1
    /\ features' = <<>>
    /\ pwi' = 0
    /\ UNCHANGED <<web_urls, pfeat, pscen, urlreqs, station_urls_file, force, prun,
                   pprev, psrcChanged, pstartFiles, requested, skipped,
                   lastSkip>>

\* =============================================================== soi_cors
\* The landing page: ok, an HTTP error, a page without the api-token meta
\* tag, a meta tag with empty content.  The stations API: ok, an HTTP error,
\* a body that is not JSON.
SPageKinds == {"ok", "http", "nometa", "empty"}

SApiKinds == {"ok", "http", "json"}

\* get_api_token() raises.
TokenPageRaises(kind) == kind \in {"http", "nometa", "empty"}

SRunning == {"token", "stations", "open", "write"}

SoiInputs ==
    /\ sscen \in [page : SPageKinds, api : SApiKinds]
    /\ sfeat \in FeatChoices

SoiOff ==
    /\ sscen = [page |-> "ok", api |-> "ok"]
    /\ sfeat = 0

SoiStart ==
    /\ OUTPUT_FILE = NoFile
    /\ spc = "idle"
    /\ stoken = None
    /\ geojson = <<>>
    /\ swi = 0
    /\ srun = 0
    /\ sstartFile = NoFile
    /\ sreqs = 0

\* python fetch_cors_stations.py; the remote answers as next says.
StartSoi(next) ==
    /\ spc \in {"idle"} \cup Ended
    /\ srun < MaxRuns
    /\ sscen' = next
    /\ srun' = srun + 1
    /\ sstartFile' = OUTPUT_FILE
    /\ spc' = "token"
    /\ stoken' = None
    /\ geojson' = <<>>
    /\ swi' = 0
    /\ sreqs' = 0
    /\ UNCHANGED <<sfeat, OUTPUT_FILE>>

\* token = get_api_token()
GetApiToken ==
    /\ spc = "token"
    /\ IF TokenPageRaises(sscen.page)
       THEN spc' = "aborted" /\ UNCHANGED stoken
       ELSE spc' = "stations" /\ stoken' = "api-token"
    /\ UNCHANGED <<sscen, sfeat, OUTPUT_FILE, geojson, swi, srun, sstartFile,
                   sreqs>>

\* geojson = fetch_stations(token)
FetchStations ==
    /\ spc = "stations"
    /\ sreqs' = sreqs + 1
    /\ IF sscen.api # "ok"
       THEN spc' = "aborted" /\ UNCHANGED geojson
       ELSE /\ geojson' = [i \in 1..sfeat |-> i]
            /\ spc' = "open"
    /\ UNCHANGED <<sscen, sfeat, OUTPUT_FILE, stoken, swi, srun, sstartFile>>

\* geojson_to_geojsonl, lines 40-42: output_path.open("w")
SOpen ==
    /\ spc = "open"
    /\ OUTPUT_FILE' = OpenTruncate(OUTPUT_FILE)
    /\ swi' = 0
    /\ spc' = "write"
    /\ UNCHANGED <<sscen, sfeat, stoken, geojson, srun, sstartFile, sreqs>>

\* geojson_to_geojsonl, lines 43-44: one feature is written.
SWriteOne ==
    /\ spc = "write"
    /\ swi < Len(geojson)
    /\ OUTPUT_FILE' = AppendItem(OUTPUT_FILE, geojson[swi + 1])
    /\ swi' = swi + 1
    /\ UNCHANGED <<sscen, sfeat, spc, stoken, geojson, srun, sstartFile, sreqs>>

\* geojson_to_geojsonl, line 45, and the end of main().
SWriteDone ==
    /\ spc = "write"
    /\ swi = Len(geojson)
    /\ spc' = "done"
    /\ UNCHANGED <<sscen, sfeat, OUTPUT_FILE, stoken, geojson, swi, srun,
                   sstartFile, sreqs>>

\* The process is killed: its memory is gone, what reached the disk stays.
SCrash ==
    /\ spc \in SRunning
    /\ spc' = "crashed"
    /\ OUTPUT_FILE' \in (IF spc = "write" THEN Flushed(OUTPUT_FILE, swi)
                                          ELSE {OUTPUT_FILE})
    /\ stoken' = None
    /\ geojson' = <<>>
    /\ swi' = 0
    /\ UNCHANGED <<sscen, sfeat, srun, sstartFile, sreqs>>

\* ================================================================ convert
\* Largest number of lines in the input files taken together.
MaxLines == 2

Str(chars) == [t |-> "str", s |-> chars]

Null == [t |-> "null", s |-> <<>>]

\* def clean(s): s.replace('\\', '')
clean(s) == SelectSeq(s, LAMBDA c : c # "\\")

DigitSeq == <<"0", "1", "2", "3", "4", "5", "6", "7", "8", "9">>

IsDigit(c) == \E i \in 1..10 : DigitSeq[i] = c

DigitVal(c) == (CHOOSE i \in 1..10 : DigitSeq[i] = c) - 1

RECURSIVE DigitsVal(_)
DigitsVal(s) ==
    IF s = <<>> THEN 0
    ELSE 10 * DigitsVal(SubSeq(s, 1, Len(s) - 1)) + DigitVal(s[Len(s)])

AllDigits(s) == \A i \in 1..Len(s) : IsDigit(s[i])

NotANumber == [ok |-> FALSE, k |-> "error", v |-> 0]

\* float() of an unsigned literal: nan, inf, infinity, or digits with at most
\* one decimal point and a digit on one side of it.  The value of a number is
\* kept in hundredths.  (Exponents, which float() also reads, do not occur in
\* the inputs of the model.)
FloatUnsigned(s) ==
    IF s = <<"n", "a", "n">> THEN [ok |-> TRUE, k |-> "nan", v |-> 0]
    ELSE IF s = <<"i", "n", "f">>
            \/ s = <<"i", "n", "f", "i", "n", "i", "t", "y">>
    THEN [ok |-> TRUE, k |-> "inf", v |-> 0]
    ELSE IF \E i \in 1..Len(s) : s[i] = "."
    THEN LET d == CHOOSE i \in 1..Len(s) : s[i] = "."
             ip == SubSeq(s, 1, d - 1)
             fp == SubSeq(s, d + 1, Len(s))
             f2 == SubSeq(fp \o <<"0", "0">>, 1, 2)
         IN  IF AllDigits(ip) /\ AllDigits(fp) /\ Len(ip) + Len(fp) > 0
             THEN [ok |-> TRUE, k |-> "num", v |-> 100 * DigitsVal(ip) + DigitsVal(f2)]
             ELSE NotANumber
    ELSE IF s # <<>> /\ AllDigits(s)
    THEN [ok |-> TRUE, k |-> "num", v |-> 100 * DigitsVal(s)]
    ELSE NotANumber

\* float(s) for a str s; ok is FALSE where float raises ValueError.
Float(s) ==
    IF s # <<>> /\ Head(s) \in {"+", "-"}
    THEN LET r == FloatUnsigned(Tail(s))
         IN  IF Head(s) = "-" THEN [r EXCEPT !.v = 0 - @] ELSE r
    ELSE FloatUnsigned(s)

\* float(clean(x)) for a JSON value x: a null has no replace method, which
\* raises inside the try block as a ValueError of float does.
ParseCoord(x) == IF x.t = "str" THEN Float(clean(x.s)) ELSE NotANumber

\* item.pop(k)
Pop(item, k) == [f \in DOMAIN item \ {k} |-> item[f]]

\* A line that is not JSON.
BadLine == [raw |-> "not json"]

IsItem(line) == "raw" \notin DOMAIN line

\* The texts of the coordinate fields met in the inputs.
LonGood == Str(<<"7", "7", ".", "5", "9">>)

LonEscaped == Str(<<"7", "7", "\\", ".", "5", "9">>)

LatGood == Str(<<"1", "2", ".", "9", "7">>)

LonChoices == {LonEscaped, Str(<<"n", "a", "n">>), Str(<<"-", "i", "n", "f">>),
               Str(<<"9", "9", "9">>), Str(<<"x", "7">>), Null}

LatChoices == {Str(<<"9", "5">>), Str(<<>>)}

Missing == [t |-> "missing", s |-> <<>>]

\* What a line may be: not JSON, or a record with the two coordinate fields,
\* one of which may be missing.
Shapes ==
    {BadLine}
    \cup {[lon |-> LonGood, lat |-> LatGood]}
    \cup {[lon |-> x, lat |-> LatGood] : x \in LonChoices \cup {Missing}}
    \cup {[lon |-> LonGood, lat |-> y] : y \in LatChoices \cup {Missing}}

\* The record of a shape; its name is its place in the file.
ItemOf(shape, j) ==
    IF shape = BadLine THEN BadLine
    ELSE [f \in {"name"}
                \cup (IF shape.lon = Missing THEN {} ELSE {"longitude"})
                \cup (IF shape.lat = Missing THEN {} ELSE {"lattitude"}) |->
            CASE f = "name" -> j
              [] f = "longitude" -> shape.lon
              [] f = "lattitude" -> shape.lat]

RECURSIVE SumTo(_, _)
SumTo(lens, i) == IF i = 0 THEN 0 ELSE lens[i] + SumTo(lens, i - 1)

\* The numbers of lines of the files.
LenVectors ==
    {lens \in [1..Len(TypeList) -> 0..MaxLines] :
        SumTo(lens, Len(TypeList)) <= MaxLines}

\* The files holding the shapes of flat, lens[i] of them in file i.
FilesOf(lens, flat) ==
    [i \in 1..Len(TypeList) |->
        [j \in 1..lens[i] |-> ItemOf(flat[SumTo(lens, i - 1) + j], j)]]

\* The feature written for an item whose coordinates parse.
FeatureLatLon(item) ==
    [type |-> "Feature",
     geometry |-> [type |-> "Point",
                   coordinates |-> <<ParseCoord(item.lattitude),
                                     ParseCoord(item.longitude)>>],
     properties |-> Pop(Pop(item, "longitude"), "lattitude")]

Feature(item) ==
    [type |-> "Feature",
     geometry |-> [type |-> "Point",
                   coordinates |-> <<ParseCoord(item.longitude),
                                     ParseCoord(item.lattitude)>>],
     properties |-> Pop(Pop(item, "longitude"), "lattitude")]

\* The line raises outside the try block: json.loads, or a pop of a missing key.
LineRaises(line) ==
    \/ ~IsItem(line)
    \/ "longitude" \notin DOMAIN line
    \/ "lattitude" \notin DOMAIN line

\* The except branch is taken.
LineRejected(line) ==
    ~ParseCoord(line.longitude).ok \/ ~ParseCoord(line.lattitude).ok

\* One input file for each branch type the scraper caches.
ConvertInputs ==
    \E lens \in LenVectors :
        \E flat \in [1..SumTo(lens, Len(TypeList)) -> Shapes] :
            cin = FilesOf(lens, flat)

ConvertOff == cin = [i \in 1..Len(TypeList) |-> <<>>]

ConvertStart ==
    /\ cout = [i \in 1..Len(TypeList) |-> NoFile]
    /\ cpc = "idle"
    /\ cfi = 1
    /\ cli = 1
    /\ count = 0
    /\ printed = <<>>

cline == cin[cfi][cli]

\* python convert.py
StartConvert ==
    /\ cpc = "idle"
    /\ cpc' = "glob"
    /\ cfi' = 1
    /\ UNCHANGED <<cin, cout, cli, count, printed>>

\* convert.py, lines 8-14: the next file p is opened with its output file.
NextFile ==
    /\ cpc = "glob"
    /\ IF cfi > Len(cin)
       THEN cpc' = "done" /\ UNCHANGED <<cout, cli, count>>
       ELSE /\ cout' = [cout EXCEPT ![cfi] = OpenTruncate(@)]
            /\ cli' = 1
            /\ count' = 0
            /\ cpc' = "line"
    /\ UNCHANGED <<cin, cfi, printed>>

\* convert.py, lines 16-18: json.loads or a pop raises; nothing catches it.
LineAborts ==
    /\ cpc = "line"
    /\ cli <= Len(cin[cfi])
    /\ LineRaises(cline)
    /\ cpc' = "aborted"
    /\ UNCHANGED <<cin, cout, cfi, cli, count, printed>>

\* convert.py, lines 19-25: a coordinate does not parse.
LineRejects ==
    /\ cpc = "line"
    /\ cli <= Len(cin[cfi])
    /\ ~LineRaises(cline)
    /\ LineRejected(cline)
    /\ printed' = Append(printed, <<count, cline>>)
    /\ count' = count + 1
    /\ cli' = cli + 1
    /\ UNCHANGED <<cin, cout, cpc, cfi>>

\* convert.py, lines 26-29: the feature is written.
LineEmits ==
    /\ cpc = "line"
    /\ cli <= Len(cin[cfi])
    /\ ~LineRaises(cline)
    /\ ~LineRejected(cline)
    /\ cout' = [cout EXCEPT ![cfi] = AppendItem(@, Feature(cline))]
    /\ count' = count + 1
    /\ cli' = cli + 1
    /\ UNCHANGED <<cin, cpc, cfi, printed>>

\* The inner loop ends; the outer loop goes on.
EndOfFile ==
    /\ cpc = "line"
    /\ cli > Len(cin[cfi])
    /\ cfi' = cfi + 1
    /\ cpc' = "glob"
    /\ UNCHANGED <<cin, cout, cli, count, printed>>

\* ================================================================= export
SPECIAL_STYLE == "#icon-1899-0288D1"

\* Another marker of the map, and the mark of a placemark without styleUrl.
OtherStyle == "#icon-1899-DB4436"

NoStyle == "no styleUrl"

\* A line of a cache file that holds white space only.
Blank == [blank |-> TRUE]

\* if line.strip()
IsBlank(line) == "blank" \in DOMAIN line

\* The feature scrape.py wrote as line j of the cache file of path p.
EFeature(p, j, style) ==
    [properties |->
        [f \in {"district", "n"}
                \cup (IF style = NoStyle THEN {} ELSE {"styleUrl"}) |->
            CASE f = "district" -> p
              [] f = "n" -> j
              [] f = "styleUrl" -> style]]

\* What a cache file may hold, line by line: a marker, or "blank".
EContents ==
    {<<>>, <<SPECIAL_STYLE>>, <<NoStyle, OtherStyle>>,
     <<SPECIAL_STYLE, "blank", NoStyle>>, <<OtherStyle, OtherStyle>>}

EFileOf(p, c) ==
    [exists |-> TRUE,
     lines |-> [j \in 1..Len(c) |->
                  IF c[j] = "blank" THEN Blank ELSE EFeature(p, j, c[j])]]

\* DATA_DIR / "<name>.geojsonl", DATA_DIR / "station_urls.json" and
\* EXPORT_DIR / "MP_Police_Stations.geojsonl"
CachePath(p) == [dir |-> "data", stem |-> p, ext |-> "geojsonl"]

UrlsPath ==
    [dir |-> "data", stem |-> <<"s", "t", "a", "t", "s">>, ext |-> "json"]

output_file == [dir |-> "data/export", stem |-> <<"M", "P">>, ext |-> "geojsonl"]

EPaths == {CachePath(p) : p \in PathSet} \cup {UrlsPath, output_file}

\* DATA_DIR.glob("*.geojsonl"): the files directly in DATA_DIR.
GlobRecursive(fs) == {f \in EPaths : fs[f].exists /\ f.ext = "geojsonl"}

Glob(fs) ==
    {f \in EPaths : fs[f].exists /\ f.dir = "data" /\ f.ext = "geojsonl"}

\* The characters of the file names in code point order.
Collation == <<"M", "P", "_", "a", "b", "p", "s", "t">>

Ord(c) == CHOOSE i \in 1..Len(Collation) : Collation[i] = c

\* The order of two file names of one directory and one suffix: "." is below
\* every character of a stem, so a stem sorts before those it starts.
RECURSIVE LexLess(_, _)
LexLess(a, b) ==
    IF a = <<>> THEN b # <<>>
    ELSE IF b = <<>> THEN FALSE
    ELSE IF Head(a) = Head(b) THEN LexLess(Tail(a), Tail(b))
    ELSE Ord(Head(a)) < Ord(Head(b))

\* sorted(...)
RECURSIVE sorted(_)
sorted(S) ==
    IF S = {} THEN <<>>
    ELSE LET m == CHOOSE x \in S :
                     \A y \in S \ {x} : LexLess(x.stem, y.stem)
         IN  <<m>> \o sorted(S \ {m})

\* feature.get("properties", {}).get("styleUrl", "") == SPECIAL_STYLE
classify_by_position(feature) ==
    IF feature.properties.n = 1 THEN "special" ELSE "regular"

classify_station(feature) ==
    LET props == IF "properties" \in DOMAIN feature
                 THEN feature.properties ELSE <<>>
        style == IF "styleUrl" \in DOMAIN props THEN props.styleUrl ELSE ""
    IN  IF style = SPECIAL_STYLE THEN "special" ELSE "regular"

\* feature["properties"]["station_type"] = classify_station(feature)
Classified(feature) ==
    [feature EXCEPT !.properties =
        [f \in DOMAIN @ \cup {"station_type"} |->
            IF f = "station_type" THEN classify_station(feature) ELSE @[f]]]

\* The features read from the lines of one file.
RECURSIVE FeaturesOf(_)
FeaturesOf(lines) ==
    IF lines = <<>> THEN <<>>
    ELSE IF IsBlank(Head(lines)) THEN FeaturesOf(Tail(lines))
    ELSE <<Classified(Head(lines))>> \o FeaturesOf(Tail(lines))

\* The cache files scrape.py left, each absent or with one of the contents;
\* station_urls.json; no export yet.
ExportInputs ==
    \E c \in [PathSet -> EContents \cup {<<"absent">>}] :
        efs = [f \in EPaths |->
                 IF f = UrlsPath THEN EFileOf(<<>>, <<>>)
                 ELSE IF f = output_file \/ c[f.stem] = <<"absent">>
                 THEN NoFile
                 ELSE EFileOf(f.stem, c[f.stem])]

ExportOff == efs = [f \in EPaths |-> NoFile]

ExportStart ==
    /\ epc = "idle"
    /\ todo = <<>>
    /\ ei = 1
    /\ efeatures = <<>>
    /\ special = 0
    /\ regular = 0
    /\ erun = 0

\* python export.py; collate_all, lines 30-32
StartExport ==
    /\ epc \in {"idle", "done"}
    /\ erun < MaxRuns
    /\ erun' = erun + 1
    /\ todo' = sorted(Glob(efs))
    /\ ei' = 1
    /\ efeatures' = <<>>
    /\ special' = 0
    /\ regular' = 0
    /\ epc' = "collate"
    /\ UNCHANGED efs

\* collate_all, lines 33-40: one file is read.
CollateFile ==
    /\ epc = "collate"
    /\ ei <= Len(todo)
    /\ efeatures' = efeatures \o FeaturesOf(efs[todo[ei]].lines)
    /\ ei' = ei + 1
    /\ UNCHANGED <<efs, epc, todo, special, regular, erun>>

\* collate_all returns; main(), lines 48-53: the export file is written.
WriteExport ==
    /\ epc = "collate"
    /\ ei > Len(todo)
    /\ efs' = [efs EXCEPT ![output_file] =
                  [exists |-> TRUE, lines |-> efeatures]]
    /\ epc' = "count"
    /\ UNCHANGED <<todo, ei, efeatures, special, regular, erun>>

\* main(), lines 55-61
CountTypes ==
    /\ epc = "count"
    /\ special' = Cardinality({k \in 1..Len(efeatures) :
                      efeatures[k].properties.station_type = "special"})
    /\ regular' = Len(efeatures) - special'
    /\ epc' = "done"
    /\ UNCHANGED <<efs, todo, ei, efeatures, erun>>

\* ============================================================ the scripts
BankOff ==
    /\ remote = [t \in TypeSet |-> 0]
    /\ scen = NoFault

BankStart ==
    /\ typ_file = [t \in TypeSet |-> NoFile]
    /\ state_map_file = FALSE
    /\ bank_group_file = FALSE
    /\ token = None
    /\ pc = "idle"
    /\ ti = 1
    /\ offset = 0
    /\ typ_data = <<>>
    /\ wi = 0
    /\ run = 0
    /\ prevEnd = None
    /\ srcChanged = FALSE
    /\ startFiles = Files
    /\ reqs = [s \in Services \cup TypeSet |-> 0]
    /\ lastReq = NoReq
    /\ tokenAtReq = None
    /\ returned = {}
    /\ abortAt = None

BankInputs ==
    /\ remote \in [TypeSet -> Totals]
    /\ scen \in Scenarios

Init ==
    /\ script \in {"banking", "police", "soi_cors", "convert", "export"}
    /\ IF script = "banking" THEN BankInputs ELSE BankOff
    /\ BankStart
    /\ IF script = "police" THEN PoliceInputs ELSE PoliceOff
    /\ PoliceStart
    /\ IF script = "soi_cors" THEN SoiInputs ELSE SoiOff
    /\ SoiStart
    /\ IF script = "convert" THEN ConvertInputs ELSE ConvertOff
    /\ ConvertStart
    /\ IF script = "export" THEN ExportInputs ELSE ExportOff
    /\ ExportStart

\* One step of one of the scripts.
Bank(A) ==
    script = "banking" /\ A /\ UNCHANGED <<script, pvars, svars, cvars, evars>>

Police(A) ==
    script = "police" /\ A /\ UNCHANGED <<script, bvars, svars, cvars, evars>>

Soi(A) ==
    script = "soi_cors" /\ A /\ UNCHANGED <<script, bvars, pvars, cvars, evars>>

Convert(A) ==
    script = "convert" /\ A /\ UNCHANGED <<script, bvars, pvars, svars, evars>>

Export(A) ==
    script = "export" /\ A /\ UNCHANGED <<script, bvars, pvars, svars, cvars>>

Next ==
    \/ Bank(\E next \in Scenarios : StartRun(next))
    \/ Bank(Landing)
    \/ Bank(TokenCall)
    \/ Bank(GetStateMap)
    \/ Bank(GetBankGroups)
    \/ Bank(GetTypeBegin)
    \/ Bank(Fetch)
    \/ Bank(OpenAppend)
    \/ Bank(AppendOne)
    \/ Bank(PageDone)
    \/ Bank(Crash)
    \/ Police(\E f, fix \in BOOLEAN : StartPolice(f, fix))
    \/ Police(GetStationUrls)
    \/ Police(SkipTraining)
    \/ Police(SkipCached)
    \/ Police(Scrape)
    \/ Police(POpen)
    \/ Police(PWriteOne)
    \/ Police(PWriteDone)
    \/ Police(PCrash)
    \/ Soi(\E next \in [page : SPageKinds, api : SApiKinds] : StartSoi(next))
    \/ Soi(GetApiToken)
    \/ Soi(FetchStations)
    \/ Soi(SOpen)
    \/ Soi(SWriteOne)
    \/ Soi(SWriteDone)
    \/ Soi(SCrash)
    \/ Convert(StartConvert)
    \/ Convert(NextFile)
    \/ Convert(LineAborts)
    \/ Convert(LineRejects)
    \/ Convert(LineEmits)
    \/ Convert(EndOfFile)
    \/ Export(StartExport)
    \/ Export(CollateFile)
    \/ Export(WriteExport)
    \/ Export(CountTypes)

Spec == Init /\ [][Next]_vars

\* ================================================================= claims
CeilDiv(a, b) == (a + b - 1) \div b

Complete(t) == typ_file[t].lines = SourceSeq(t)

PComplete(n) ==
    geojsonl[get_district_geojsonl_path(n)] =
        [exists |-> TRUE, lines |-> kml_to_geojson_features(n)]

\* C1 (idempotent resume).  When a run of the collector follows a run that
\* ended by itself, and the remote answers as it did before, the second run
\* leaves every cache file with the records it found there, none twice:
\* banking main() over the branch types, police scrape_all_districts with
\* force=False in both runs.
C1_IdempotentResume ==
    /\ (script = "banking" /\ pc \in {"done", "aborted"}
            /\ prevEnd \in {"done", "aborted"} /\ ~srcChanged)
        => /\ typ_file = startFiles.typ
           /\ \A t \in TypeSet : NoDup(typ_file[t].lines)
    /\ (script = "police" /\ ppc \in {"done", "aborted"} /\ ~force
            /\ pprev.end \in {"done", "aborted"} /\ ~pprev.force
            /\ ~psrcChanged)
        => /\ geojsonl = pstartFiles
           /\ \A p \in PathSet : NoDup(geojsonl[p].lines)

C1_Witness ==
    /\ script = "banking"
    /\ run = 2 /\ pc = "done" /\ prevEnd = "done" /\ ~srcChanged
    /\ \E t \in TypeSet : Len(typ_file[t].lines) > limit

\* C2 (partial-failure isolation), as claimed.  When the fetch for one key K
\* fails and every other fetch succeeds, the run ends with a complete cache
\* entry for every other key, those after K included, and K's entry holds what
\* was appended before the failure.
C2_PartialFailureIsolation ==
    /\ (script = "banking" /\ run = 1 /\ scen.at = "data"
            /\ pc \in {"done", "aborted"})
        => /\ \A t \in TypeSet \ {scen.typ} : Complete(t)
           /\ typ_file[scen.typ].lines
                 = SubSeq(SourceSeq(scen.typ), 1, Min(scen.from, remote[scen.typ]))
    /\ (script = "police" /\ prun = 1 /\ pscen.at = "district"
            /\ ppc \in {"done", "aborted"})
        => \A i \in 1..Len(web_urls) :
              (~IsTraining(web_urls[i]) /\ web_urls[i] # pscen.name)
                  => geojsonl[get_district_geojsonl_path(web_urls[i])].exists

\* A get_type call of this run that found no cached record and returned.
FromEmpty(t) ==
    /\ script = "banking"
    /\ t \in returned
    /\ startFiles.typ[t].lines = <<>>

\* C3 (pagination termination), as claimed.  Starting from an empty cache,
\* get_type issues exactly ceil(total/limit) fetch calls, stops, and the cache
\* holds the total records in the source's order.
C3_CeilFetchCalls ==
    \A t \in TypeSet :
        FromEmpty(t) => /\ reqs[t] = CeilDiv(remote[t], limit)
                        /\ Complete(t)

\* C3, amended.  Starting from an empty cache, get_type issues exactly
\* floor(total/limit) + 1 fetch calls (the last one returns the short page,
\* which is empty when total is a multiple of limit), stops, and the cache
\* holds the total records in the source's order; the number of calls is
\* ceil(total/limit) when the short page is not empty.
C3_FetchCalls ==
    \A t \in TypeSet :
        FromEmpty(t) => /\ reqs[t] = (remote[t] \div limit) + 1
                        /\ (remote[t] % limit # 0
                               => reqs[t] = CeilDiv(remote[t], limit))
                        /\ Complete(t)

\* A source holding exactly one page has been fetched with two calls.
C3_Witness ==
    \E t \in TypeSet :
        /\ FromEmpty(t)
        /\ remote[t] = limit
        /\ reqs[t] = 2
        /\ Complete(t)

\* The records of the page in hand that are not written yet.
Unwritten == SubSeq(typ_data, wi + 1, Len(typ_data))

\* The records of t in the file that belong to pages whose append finished.
Closed(t) ==
    SubSeq(typ_file[t].lines, 1,
           Len(typ_file[t].lines)
               - (IF pc = "append" /\ t = typ THEN wi ELSE 0))

\* C4 (crash durability).  Whatever the points at which runs of get_type are
\* killed, each cache file is at every moment a prefix of the source's record
\* sequence without duplicates, the page in hand continues exactly where the
\* file ends, no step removes or changes a record of a page whose append
\* finished, and only a kill loses records of the page being appended.
C4_CachePrefix ==
    script = "banking" =>
        /\ \A t \in TypeSet : /\ IsPrefix(typ_file[t].lines, SourceSeq(t))
                              /\ NoDup(typ_file[t].lines)
        /\ pc = "open"
             => typ_data = Page(typ, Len(typ_file[typ].lines), limit)
        /\ pc = "append"
             => Unwritten = Page(typ, Len(typ_file[typ].lines), limit - wi)

C4_NothingLost ==
    \A t \in TypeSet :
        IsPrefix(IF pc' = "crashed" THEN Closed(t) ELSE typ_file[t].lines,
                 typ_file'[t].lines)

C4_CrashDurability == [](C4_CachePrefix) /\ [][C4_NothingLost]_vars

\* A run that found a cache cut in the middle of a page has completed it.
C4_Witness ==
    /\ script = "banking"
    /\ prevEnd = "crashed"
    /\ \E t \in TypeSet :
          /\ Len(startFiles.typ[t].lines) % limit # 0
          /\ Len(startFiles.typ[t].lines) < remote[t]
          /\ t \in returned
          /\ Complete(t)

\* C5 (skip rule), as claimed.  With force unset a key is skipped, with no
\* remote request and its cache untouched, exactly when its cache entry exists
\* and is not empty; a key whose cache entry is missing or empty is fetched.
\* With force set the key is fetched whatever its cache entry.
C5_SkipRule ==
    (script = "police" /\ lastSkip.name # NoName) =>
        /\ lastSkip.force => ~lastSkip.skip
        /\ ~lastSkip.force =>
              (lastSkip.skip <=> (lastSkip.file.exists /\ lastSkip.file.lines # <<>>))
        /\ lastSkip.skip => lastSkip.name \notin requested

\* The two keys of the scenario, and its remote: the first key holds a full
\* page and a short one, the first fetch of the second key fails in transport.
KeyA == TypeList[1]

KeyB == TypeList[2]

ScenarioRemote == remote[KeyA] = limit + 1

ScenarioFault ==
    scen = [at |-> "data", kind |-> "transport", typ |-> KeyB, from |-> 0]

\* The first run of the scenario has ended.
ScenarioRun1 ==
    /\ script = "banking"
    /\ run = 1 /\ ScenarioRemote /\ ScenarioFault
    /\ pc \in {"done", "aborted"}

\* A run after the repair has ended, having found what the first run left.
ScenarioRun2 ==
    /\ script = "banking"
    /\ run >= 2 /\ ScenarioRemote /\ srcChanged /\ prevEnd = "aborted"
    /\ startFiles.typ[KeyA].lines = SourceSeq(KeyA)
    /\ startFiles.typ[KeyB].lines = <<>>
    /\ pc = "done"

\* The same scenario for the police collector: every district has a cache
\* file of its own, the page of the second cannot be fetched.
DistA == web_urls[1]

DistB == web_urls[2]

PScenarioRemote ==
    /\ ~IsTraining(DistA) /\ ~IsTraining(DistB)
    /\ \A i, j \in 1..Len(web_urls) :
          i # j => get_district_geojsonl_path(web_urls[i])
                      # get_district_geojsonl_path(web_urls[j])
    /\ pfeat[DistA] > 0 /\ pfeat[DistB] > 0

PScenarioRun1 ==
    /\ script = "police"
    /\ prun = 1 /\ ~force /\ PScenarioRemote
    /\ pscen = [at |-> "district", name |-> DistB, kind |-> "page"]
    /\ ppc = "done"

PScenarioRun2 ==
    /\ script = "police"
    /\ prun >= 2 /\ ~force /\ PScenarioRemote /\ psrcChanged /\ pprev.end = "done"
    /\ pstartFiles[get_district_geojsonl_path(DistA)].lines
          = kml_to_geojson_features(DistA)
    /\ ~pstartFiles[get_district_geojsonl_path(DistB)].exists
    /\ ppc = "done"

C10_TokenKept ==
    (run' = run /\ pc' # "crashed" /\ token # None) => token' = token

C10_RequestsCarryToken ==
    script = "banking" =>
        /\ lastReq.service # None =>
              lastReq.auth = (IF tokenAtReq # None THEN token ELSE None)
        /\ token # None => token \in Tokens
        /\ reqs["security_generateSessionToken"] <= 1

C10_TokenOnce == [](C10_RequestsCarryToken) /\ [][C10_TokenKept]_vars

C10_Witness ==
    /\ script = "banking"
    /\ token \in Tokens
    /\ lastReq.service = "dbie_getBankGetData"
    /\ lastReq.auth = token
    /\ \E t \in TypeSet : reqs[t] >= 2

\* Requests of this run other than the token call.
UnitRequests ==
    {x \in Services \cup TypeSet :
        x # "security_generateSessionToken" /\ reqs[x] > 0}

\* C9 (authorization failure is fatal).  When the handshake fails (banking:
\* the landing page or the token call; SOI: the page carrying the api-token),
\* the run ends with the exception, never reaches a unit fetch, and leaves
\* every cache and output file as it found it.
C9_HandshakeFatal ==
    /\ (script = "banking" /\ scen.at \in {"landing", "token"})
        => /\ pc \in {"idle", "landing", "token", "aborted", "crashed"}
           /\ pc = "aborted" => abortAt = scen.at
           /\ UnitRequests = {}
           /\ Files = startFiles
    /\ (script = "soi_cors" /\ sscen.page # "ok")
        => /\ spc \in {"idle", "token", "aborted", "crashed"}
           /\ sreqs = 0
           /\ OUTPUT_FILE = sstartFile

\* The token call of a second run fails after a first run filled the caches.
C9_Witness ==
    /\ script = "banking"
    /\ pc = "aborted" /\ abortAt = "token" /\ scen.kind = "status"
    /\ token # None
    /\ \E t \in TypeSet : Len(typ_file[t].lines) > 0

\* A coordinate that is a finite number within lo..hi (in hundredths).
FiniteWithin(c, lo, hi) == c.ok /\ c.k = "num" /\ lo <= c.v /\ c.v <= hi

ValidCoordinates(feat) ==
    /\ FiniteWithin(feat.geometry.coordinates[1], -18000, 18000)
    /\ FiniteWithin(feat.geometry.coordinates[2], -9000, 9000)

\* C7 (coordinate invariant), as claimed.  Every record convert.py writes has
\* finite coordinates within [-180,180] and [-90,90]; a record whose longitude
\* or lattitude is null, not a number, NaN, infinite or out of range is never
\* written.
C7_CoordinatesValid ==
    script = "convert" =>
        \A i \in 1..Len(cout) : \A j \in 1..Len(cout[i].lines) :
            ValidCoordinates(cout[i].lines[j])

\* A record that can be normalized: both fields present and parsing.
WellFormed(line) == ~LineRaises(line) /\ ~LineRejected(line)

\* C8 (record-level rejection never aborts), as claimed.  A line that is not
\* JSON, a record without longitude or lattitude, or a record with a
\* coordinate that does not parse is dropped and the run goes on: when the
\* run has ended, every well-formed record of every file has been written.
C8_RejectionNeverAborts ==
    (script = "convert" /\ cpc \in {"done", "aborted"}) =>
        /\ cpc = "done"
        /\ \A i \in 1..Len(cin) : \A j \in 1..Len(cin[i]) :
              WellFormed(cin[i][j]) =>
                  \E k \in 1..Len(cout[i].lines) :
                      cout[i].lines[k] = Feature(cin[i][j])

\* A unit fetch of this step failed: service_call raised in get_type, or
\* scrape_district_police_stations returned [] from one of its error exits.
BankFetchFails == script = "banking" /\ pc = "fetch" /\ pc' = "aborted"

PoliceFetchFails ==
    /\ script = "police" /\ ppc = "loop" /\ ppc' \in {"loop", "done"}
    /\ lastSkip' # lastSkip /\ ~lastSkip'.skip
    /\ POutcome(lastSkip'.name) \in {"page", "nomap", "kml", "zip"}

\* C11 (failed fetch leaves shared state unchanged).  When a unit fetch fails,
\* the module-level token and every per-key cache file are after the call
\* what they were before it.
C11_FailedFetchFrame ==
    /\ BankFetchFails => token' = token /\ typ_file' = typ_file
    /\ PoliceFetchFails => geojsonl' = geojsonl

OwnCaches ==
    \A i, j \in 1..Len(web_urls) :
        i # j => get_district_geojsonl_path(web_urls[i])
                    # get_district_geojsonl_path(web_urls[j])

\* C14 (no partial cache passes as complete), as claimed.  Wherever earlier
\* runs were killed, a district that a run with force=False skips as cached
\* has a cache file holding all the features of its map: a file written in
\* part, or only created, is not skipped.
C14_SkippedIsComplete ==
    (script = "police" /\ OwnCaches /\ lastSkip.skip) =>
        lastSkip.file.lines = kml_to_geojson_features(lastSkip.name)

\* One reference lookup as a step shows it: the file and the request count
\* before (exists, n) and after (exists2, n2), and whether the lookup raised.
LookupShortCircuits(exists, exists2, n, n2, raised) ==
    IF exists THEN n2 = n /\ exists2 /\ ~raised
    ELSE /\ n2 = n + 1
         /\ exists2 = ~raised

\* C15 (reference lookup short-circuit).  get_state_map, get_bank_groups and
\* get_station_urls return the content of their cache file without a remote
\* request when the file is present; when it is absent they issue one request
\* and write the file, and a failed request leaves the file absent.  No other
\* step writes these files.
C15_LookupStep ==
    /\ (script = "banking" /\ pc = "state_map" /\ pc' # "crashed")
        => LookupShortCircuits(state_map_file, state_map_file',
                               reqs["dbie_getStateAndDistrict"],
                               reqs'["dbie_getStateAndDistrict"],
                               pc' = "aborted")
    /\ (script = "banking" /\ pc = "bank_group" /\ pc' # "crashed")
        => LookupShortCircuits(bank_group_file, bank_group_file',
                               reqs["dbie_getBankANDBankGrp"],
                               reqs'["dbie_getBankANDBankGrp"],
                               pc' = "aborted")
    /\ (script = "police" /\ ppc = "urls" /\ ppc' # "crashed")
        => /\ LookupShortCircuits(station_urls_file.exists,
                                  station_urls_file'.exists,
                                  urlreqs, urlreqs', ppc' = "aborted")
           /\ station_urls_file.exists
                 => /\ station_urls_file' = station_urls_file
                    /\ district_urls' = station_urls_file.data
    /\ (script = "banking" /\ pc # "state_map")
        => state_map_file' = state_map_file
    /\ (script = "banking" /\ pc # "bank_group")
        => bank_group_file' = bank_group_file
    /\ (script = "police" /\ ppc # "urls")
        => station_urls_file' = station_urls_file /\ urlreqs' <= urlreqs

C15_ShortCircuit == [][C15_LookupStep]_vars

\* A second run has gone past all lookups of its script on the cache files of
\* the first, with no request for them.
C15_Witness ==
    \/ /\ script = "banking" /\ run = 2 /\ pc = "get_type"
       /\ startFiles.sm /\ startFiles.bg
       /\ reqs["dbie_getStateAndDistrict"] = 0
       /\ reqs["dbie_getBankANDBankGrp"] = 0
    \/ /\ script = "police" /\ prun = 2 /\ ppc = "loop"
       /\ urlreqs = 0 /\ district_urls = web_urls

\* C16 (offset tracks the cache).  In get_type the offsetValue of every fetch
\* request equals the number of records in the cache file of its type at that
\* moment: before the request is sent, and when it has been answered or has
\* failed, for the first request of a run and after every page appended.
C16_OffsetTracksCache ==
    script = "banking" =>
        /\ pc = "fetch" => offset = Len(typ_file[typ].lines)
        /\ (pc = "open" \/ (pc = "aborted" /\ abortAt = "data"))
              => /\ lastReq.service = "dbie_getBankGetData"
                 /\ lastReq.typ = typ
                 /\ lastReq.offset = Len(typ_file[typ].lines)

\* A run that found a cache cut inside a page has appended a full page and
\* asked for the next one.
C16_Witness ==
    /\ script = "banking" /\ prevEnd = "crashed" /\ pc = "open"
    /\ Len(startFiles.typ[typ].lines) % limit # 0
    /\ reqs[typ] = 2
    /\ lastReq.offset = Len(startFiles.typ[typ].lines) + limit

\* The districts scrape_all_districts processes: those it does not pass over
\* as training centres.
Processed ==
    {district_urls[i] : i \in 1..Len(district_urls)}
        \ {n \in NameChoices : IsTraining(n)}

\* C18 (distinct keys, distinct caches), as claimed.  Two different district
\* names that are both processed have different cache files, so a district is
\* skipped as cached only on a file written for it, and when a run has ended
\* by itself the file of a district fetched with success holds its records.
C18_DistinctCaches ==
    script = "police" =>
        /\ \A m, n \in Processed :
              m # n => get_district_geojsonl_path(m)
                          # get_district_geojsonl_path(n)
        /\ lastSkip.skip =>
              \A k \in 1..Len(lastSkip.file.lines) :
                  lastSkip.file.lines[k].district = lastSkip.name
        /\ ppc = "done" =>
              \A n \in requested :
                  POutcome(n) = "ok" => PComplete(n)

\* The last call of scrape_district_police_stations was made with force=True
\* for a district that had a cache file, and has returned or raised.
ForcedCallEnded ==
    /\ script = "police"
    /\ ppc \in {"loop", "done", "aborted"}
    /\ lastSkip.name # NoName /\ lastSkip.force /\ lastSkip.file.exists

\* C19 (force re-fetch).  With force=True on a district that has a cache
\* file, a fetch that succeeds leaves in the file exactly the features just
\* fetched, none of the old records and none twice, and a fetch that fails at
\* any step leaves the file as it was.
C19_ForceRefetch ==
    ForcedCallEnded =>
        /\ ~lastSkip.skip
        /\ geojsonl[get_district_geojsonl_path(lastSkip.name)] =
              IF POutcome(lastSkip.name) = "ok"
              THEN [exists |-> TRUE,
                    lines |-> kml_to_geojson_features(lastSkip.name)]
              ELSE lastSkip.file

\* A forced fetch has replaced a cache file that held other records.
C19_Witness ==
    /\ ForcedCallEnded
    /\ POutcome(lastSkip.name) = "ok"
    /\ lastSkip.file.lines # <<>>
    /\ lastSkip.file.lines # kml_to_geojson_features(lastSkip.name)
    /\ PComplete(lastSkip.name)

\* A file of well-formed records: every line is JSON with both fields.
WellFormedFile(f) == \A j \in 1..Len(f) : ~LineRaises(f[j])

\* The Point feature of a record: [longitude, latitude] as float reads them,
\* and the record without its two coordinate fields.
IsFeatureOf(feat, item) ==
    /\ feat.type = "Feature"
    /\ feat.geometry.type = "Point"
    /\ feat.geometry.coordinates[1] = Float(clean(item.longitude.s))
    /\ feat.geometry.coordinates[2] = Float(clean(item.lattitude.s))
    /\ DOMAIN feat.properties = DOMAIN item \ {"longitude", "lattitude"}
    /\ \A k \in DOMAIN feat.properties : feat.properties[k] = item[k]

\* The records of f whose coordinates parse, and the others, in the order of f.
Parsing(f) == SelectSeq(f, LAMBDA l : ~LineRejected(l))

NotParsing(f) == SelectSeq(f, LAMBDA l : LineRejected(l))

\* The lines print(count, line) has shown, in order.
StdoutLines == [k \in 1..Len(printed) |-> printed[k][2]]

RECURSIVE RejectedUpTo(_)
RejectedUpTo(i) ==
    IF i = 0 THEN <<>> ELSE RejectedUpTo(i - 1) \o NotParsing(cin[i])

\* C17 (normalizer conservation).  For every input file of well-formed
\* records that convert.py has gone through, the output file holds, in the
\* order of the input, one Point feature for each record whose coordinates
\* parse, with coordinates [longitude, latitude] and the record less its two
\* coordinate fields as properties; the other records have been printed, in
\* order, each once; every record is in the output or printed.
C17_Conservation ==
    (script = "convert" /\ cpc \in {"glob", "done", "aborted"}) =>
        \A i \in 1..Len(cin) :
            (i < cfi /\ \A h \in 1..i : WellFormedFile(cin[h])) =>
                /\ cout[i].exists
                /\ Len(cout[i].lines) = Len(Parsing(cin[i]))
                /\ \A k \in 1..Len(cout[i].lines) :
                      IsFeatureOf(cout[i].lines[k], Parsing(cin[i])[k])
                /\ Len(cout[i].lines) + Len(NotParsing(cin[i])) = Len(cin[i])
                /\ (i + 1 = cfi /\ cpc # "aborted")
                      => StdoutLines = RejectedUpTo(i)

\* A file with a record that parses after backslashes are removed and a
\* record that does not parse has been gone through.
C17_Witness ==
    /\ script = "convert" /\ cpc = "done"
    /\ \E i \in 1..Len(cin) :
          /\ Len(cin[i]) = 2
          /\ Len(cout[i].lines) = 1
          /\ Len(printed) = 1
          /\ \E j \in 1..2 : cin[i][j].longitude = LonEscaped

\* The number of records, the lines that are not blank, of a cache file.
Records(file) == Cardinality({j \in 1..Len(file.lines) : ~IsBlank(file.lines[j])})

RECURSIVE SumRecords(_)
SumRecords(S) ==
    IF S = {} THEN 0
    ELSE LET p == CHOOSE x \in S : TRUE
         IN  Records(efs[CachePath(p)]) + SumRecords(S \ {p})

\* The export as main() has written it.
Exported == efs[output_file].lines

\* The record a line of the export was made from: the line of the cache file
\* it names, which it equals but for station_type.
FromCache(line) ==
    LET src == efs[CachePath(line.properties.district)]
        j == line.properties.n
    IN  /\ j \in 1..Len(src.lines)
        /\ ~IsBlank(src.lines[j])
        /\ DOMAIN line.properties
              = DOMAIN src.lines[j].properties \cup {"station_type"}
        /\ \A f \in DOMAIN src.lines[j].properties :
              line.properties[f] = src.lines[j].properties[f]

\* C12 (collation order and completeness).  Whenever export.py has written
\* the export, in a first run or a later one, the export holds exactly one
\* line for each record of the cache files, sum(m_i) lines, the files in the
\* order of their names and the records of a file in the order of the file;
\* a run does not read the export of an earlier run as an input.
C12_Collation ==
    (script = "export" /\ epc \in {"count", "done"}) =>
        /\ Len(Exported) = SumRecords(PathSet)
        /\ \A k \in 1..Len(Exported) : FromCache(Exported[k])
        /\ \A k, l \in 1..Len(Exported) :
              k < l =>
                LET a == Exported[k].properties
                    b == Exported[l].properties
                IN  \/ LexLess(a.district, b.district)
                    \/ a.district = b.district /\ a.n < b.n
        /\ \A i \in 1..Len(todo) : todo[i] # output_file

\* A second run has written the export of three cache files, one of them
\* with a blank line, over the export of the first run.
C12_Witness ==
    /\ script = "export" /\ erun = 2 /\ epc = "done"
    /\ Len(todo) = 3
    /\ \E i \in 1..3 : \E j \in 1..Len(efs[todo[i]].lines) :
          IsBlank(efs[todo[i]].lines[j])
    /\ Len(Exported) >= 4

\* The styleUrl marker of a feature: a set, empty when it has none.
Marker(feature) ==
    IF "styleUrl" \in DOMAIN feature.properties
    THEN {feature.properties.styleUrl} ELSE {}

Label(feature) == feature.properties.station_type

\* C13 (classification determinism).  Two records with the same styleUrl
\* marker, or both without one, have the same label whatever their other
\* properties; the label is special exactly when the marker is the special
\* value, regular otherwise; the counts reported sum to the total exported.
C13_Classification ==
    script = "export" =>
        /\ \A k, l \in 1..Len(efeatures) :
              Marker(efeatures[k]) = Marker(efeatures[l])
                  => Label(efeatures[k]) = Label(efeatures[l])
        /\ \A k \in 1..Len(efeatures) :
              /\ Label(efeatures[k]) \in {"special", "regular"}
              /\ Label(efeatures[k]) = "special"
                    <=> Marker(efeatures[k]) = {SPECIAL_STYLE}
        /\ epc = "done" =>
              /\ special + regular = Len(Exported)
              /\ special = Cardinality({k \in 1..Len(Exported) :
                               Marker(Exported[k]) = {SPECIAL_STYLE}})

\* Records of different districts with the special marker, with another one
\* and with none have been counted.
C13_Witness ==
    /\ script = "export" /\ epc = "done"
    /\ special >= 2 /\ regular >= 2
    /\ \E k, l \in 1..Len(efeatures) :
          /\ Marker(efeatures[k]) = {} /\ Marker(efeatures[l]) = {OtherStyle}
    /\ \E k, l \in 1..Len(efeatures) :
          /\ Marker(efeatures[k]) = Marker(efeatures[l])
          /\ efeatures[k].properties.district # efeatures[l].properties.district

====
